---- MODULE Spec2Model ----
(***************************************************************************)
(* A model of AdvancedLichessBot (src/main.py): the outer listening loop   *)
(* `run`, the per-game session `play_game`, and the helpers the session    *)
(* uses (is_our_turn, should_accept_draw, should_accept_takeback,          *)
(* consider_resignation).                                                  *)
(*                                                                         *)
(* Strings are sequences of one-character strings, so that str.split(),    *)
(* str.lower() and the substring test `word in text` are computed and not  *)
(* assumed.  A Cyrillic letter is written as a named character "cy_x"      *)
(* (lower case) or "CY_X" (upper case).                                    *)
(*                                                                         *)
(* What the collaborators answer is a nondeterministic input of the        *)
(* handler that calls them: every game-service call and every engine call  *)
(* either returns or raises, random.random() returns a value in [0,1)      *)
(* (modelled in hundredths), and python-chess either replays the tokens    *)
(* or raises, giving a board with some number of pieces.  The move tokens  *)
(* are opaque (the character "m" stands for any character of a token), so  *)
(* the legality of the tokens and the number of pieces left on the board   *)
(* they lead to are inputs of the handler, not functions of the string.    *)
(***************************************************************************)
EXTENDS Integers, Sequences, FiniteSets, TLC

VARIABLES
    pc,          \* where `run` is: "listening", "playing" (inside play_game), "stopped", "crashed"
    incoming,    \* what `run` did with the last incoming event
    settings,    \* self.settings
    our_color,   \* play_game's local our_color ("none" is None)
    move_count,  \* play_game's local move_count
    last,        \* what stream_game_state gave last in this session: an event,
                 \* an exception ("error") or the end of the stream ("end")
    acts,        \* the calls made while handling `last`, in order
    ended,       \* how the last play_game call ended ("no": it has not)
    openings,    \* how many moves computed on the initial position (no token
                 \* replayed) this session has submitted, counted up to MaxOpenings
    tq           \* an is_our_turn query: its arguments and its answer

vars == <<pc, incoming, settings, our_color, move_count, last, acts, ended, openings, tq>>

(***************************************************************************)
(* Bounds of the model.                                                    *)
(***************************************************************************)
MaxMovesLen == 3    \* longest `moves` string of a gameState event, in characters
MaxTurnLen == 6     \* longest `moves` string of an is_our_turn query
MaxOpenings == 2    \* where the count of opening moves of a session stops

(***************************************************************************)
(* Program constants.                                                      *)
(***************************************************************************)
DefaultDrawAcceptChance == 30       \* 0.3, in hundredths
DefaultTakebackAcceptChance == 20   \* 0.2
DefaultResignChance == 10           \* 0.1
DefaultMinMovesForDraw == 10
PieceThreshold == 10                \* len(board.piece_map()) < 10
InitialPieces == 32                 \* chess.Board() holds 32 pieces

None == "none"
Colors == {"white", "black"}

(***************************************************************************)
(* Strings.                                                                *)
(***************************************************************************)
RECURSIVE StringsUpTo(_, _)
\* every string over `alphabet` of at most n characters
StringsUpTo(alphabet, n) ==
    IF n = 0 THEN {<<>>}
    ELSE LET shorter == StringsUpTo(alphabet, n - 1)
         IN  shorter \cup {Append(s, c) : s \in shorter, c \in alphabet}

MoveChars == {"m", " "}

IsSpace(c) == c = " "

RECURSIVE SplitFrom(_, _, _)
\* str.split() with no separator: the maximal runs of non-whitespace characters
SplitFrom(s, i, word) ==
    IF i > Len(s)
    THEN IF word = <<>> THEN <<>> ELSE <<word>>
    ELSE IF IsSpace(s[i])
         THEN IF word = <<>> THEN SplitFrom(s, i + 1, <<>>)
              ELSE <<word>> \o SplitFrom(s, i + 1, <<>>)
         ELSE SplitFrom(s, i + 1, Append(word, s[i]))

Split(s) == SplitFrom(s, 1, <<>>)

UpperAlpha == <<"A", "B", "C", "D", "E", "F", "G", "H", "I", "J", "K", "L", "M",
                "N", "O", "P", "Q", "R", "S", "T", "U", "V", "W", "X", "Y", "Z",
                "CY_N", "CY_I", "CY_CH", "CY_SOFT", "CY_YA",
                "CY_O", "CY_T", "CY_M", "CY_E", "CY_A">>
LowerAlpha == <<"a", "b", "c", "d", "e", "f", "g", "h", "i", "j", "k", "l", "m",
                "n", "o", "p", "q", "r", "s", "t", "u", "v", "w", "x", "y", "z",
                "cy_n", "cy_i", "cy_ch", "cy_soft", "cy_ya",
                "cy_o", "cy_t", "cy_m", "cy_e", "cy_a">>

LowerChar(c) ==
    IF \E i \in DOMAIN UpperAlpha : UpperAlpha[i] = c
    THEN LowerAlpha[CHOOSE i \in DOMAIN UpperAlpha : UpperAlpha[i] = c]
    ELSE c

\* str.lower()
Lower(s) == [i \in DOMAIN s |-> LowerChar(s[i])]

\* `word in text`
Contains(text, word) ==
    \E i \in 1..(Len(text) - Len(word) + 1) :
        SubSeq(text, i, i + Len(word) - 1) = word

W_draw == <<"d", "r", "a", "w">>
W_nichya == <<"cy_n", "cy_i", "cy_ch", "cy_soft", "cy_ya">>
W_peace == <<"p", "e", "a", "c", "e">>
W_drawq == <<"d", "r", "a", "w", "?">>
W_takeback == <<"t", "a", "k", "e", "b", "a", "c", "k">>
W_otmena == <<"cy_o", "cy_t", "cy_m", "cy_e", "cy_n", "cy_a">>
W_back == <<"b", "a", "c", "k">>
W_undo == <<"u", "n", "d", "o">>

DrawWords == {W_draw, W_nichya, W_peace, W_drawq}
TakebackWords == {W_takeback, W_otmena, W_back, W_undo}

\* any(word in text for word in ['draw', ...])
HasDrawWord(text) == \E w \in DrawWords : Contains(text, w)
\* any(word in text for word in ['takeback', ...])
HasTakebackWord(text) == \E w \in TakebackWords : Contains(text, w)

(***************************************************************************)
(* is_our_turn                                                             *)
(***************************************************************************)
IsOurTurn_Flipped(moves, color) ==
    IF moves = <<>> THEN color = "white"
    ELSE LET is_white_turn == Len(Split(moves)) % 2 = 1
         IN  (color = "white") = is_white_turn

IsOurTurn(moves, color) ==
    IF moves = <<>> THEN color = "white"
    ELSE LET moves_list == Split(moves)
             is_white_turn == Len(moves_list) % 2 = 0
         IN  (color = "white") = is_white_turn

(***************************************************************************)
(* The environment: what the collaborators can answer.                     *)
(***************************************************************************)
\* random.random(), in hundredths
RandomValues == {0, 30, 99}

\* len(board.piece_map()) after replaying n tokens
PieceCounts(n) == IF n = 0 THEN {InitialPieces} ELSE {9, 10, InitialPieces}

\* one call made by a handler: what was called, whether it returned (ok) or
\* raised, and a value: for engine_play the number of tokens replayed on the
\* board it was given, for a random.random() call ("flip_draw" at line 49,
\* "flip_takeback" at line 62, "flip_resign" at line 75) the value it returned,
\* for "piece_map" (len(board.piece_map()) at line 78) the number of pieces
Act(call, ok, arg) == [call |-> call, ok |-> ok, arg |-> arg]

ServiceCalls == {"make_move", "resign", "accept_draw", "accept_takeback"}

Calls(as, name) == {i \in DOMAIN as : as[i].call = name}
Count(as, name) == Cardinality(Calls(as, name))

(***************************************************************************)
(* should_accept_draw, should_accept_takeback, consider_resignation: the   *)
(* calls made and the value returned, given the random value drawn and     *)
(* whether the game-service call returns.                                  *)
(***************************************************************************)
TooEarlyForDraw_NoGate(count, S) == FALSE

TooEarlyForDraw(count, S) == count < S.min_moves_for_draw

CoinFlip_Inclusive(r, chance) == r <= chance

\* random.random() < chance
CoinFlip(r, chance) == r < chance

ShouldAcceptDraw(count, r, ok, S) ==
    IF TooEarlyForDraw(count, S)
    THEN [calls |-> <<>>, ret |-> FALSE]
    ELSE IF CoinFlip(r, S.draw_accept_chance)
         THEN [calls |-> <<Act("flip_draw", TRUE, r), Act("accept_draw", ok, 0)>>,
               ret |-> ok]
         ELSE [calls |-> <<Act("flip_draw", TRUE, r)>>, ret |-> FALSE]

ShouldAcceptTakeback_DrawChance(r, ok, S) ==
    IF CoinFlip(r, S.draw_accept_chance)
    THEN [calls |-> <<Act("flip_takeback", TRUE, r), Act("accept_takeback", ok, 0)>>,
          ret |-> ok]
    ELSE [calls |-> <<Act("flip_takeback", TRUE, r)>>, ret |-> FALSE]

ShouldAcceptTakeback(r, ok, S) ==
    IF CoinFlip(r, S.takeback_accept_chance)
    THEN [calls |-> <<Act("flip_takeback", TRUE, r), Act("accept_takeback", ok, 0)>>,
          ret |-> ok]
    ELSE [calls |-> <<Act("flip_takeback", TRUE, r)>>, ret |-> FALSE]

ConsiderResignation_TrueOnFailure(r, pieces, ok, S) ==
    IF CoinFlip(r, S.resign_chance)
    THEN IF pieces < PieceThreshold
         THEN [calls |-> <<Act("flip_resign", TRUE, r), Act("piece_map", TRUE, pieces),
                           Act("resign", ok, 0)>>,
               ret |-> TRUE]
         ELSE [calls |-> <<Act("flip_resign", TRUE, r), Act("piece_map", TRUE, pieces)>>,
               ret |-> FALSE]
    ELSE [calls |-> <<Act("flip_resign", TRUE, r)>>, ret |-> FALSE]

ConsiderResignation_AtThreshold(r, pieces, ok, S) ==
    IF CoinFlip(r, S.resign_chance)
    THEN IF pieces <= PieceThreshold
         THEN [calls |-> <<Act("flip_resign", TRUE, r), Act("piece_map", TRUE, pieces),
                           Act("resign", ok, 0)>>,
               ret |-> ok]
         ELSE [calls |-> <<Act("flip_resign", TRUE, r), Act("piece_map", TRUE, pieces)>>,
               ret |-> FALSE]
    ELSE [calls |-> <<Act("flip_resign", TRUE, r)>>, ret |-> FALSE]

ConsiderResignation(r, pieces, ok, S) ==
    IF CoinFlip(r, S.resign_chance)
    THEN IF pieces < PieceThreshold
         THEN [calls |-> <<Act("flip_resign", TRUE, r), Act("piece_map", TRUE, pieces),
                           Act("resign", ok, 0)>>,
               ret |-> ok]
         ELSE [calls |-> <<Act("flip_resign", TRUE, r), Act("piece_map", TRUE, pieces)>>,
               ret |-> FALSE]
    ELSE [calls |-> <<Act("flip_resign", TRUE, r)>>, ret |-> FALSE]

(***************************************************************************)
(* play_game: what handling one event of the game stream can do.  A result *)
(* holds the locals after the handler, the calls it made and how it left   *)
(* the loop body: "continue" (next event), "return", "raise" (an exception *)
(* reaches the `except Exception` of play_game) or "exhausted" (the for    *)
(* loop is over).                                                          *)
(***************************************************************************)
Result(color, count, calls, outcome) ==
    [color |-> color, count |-> count, calls |-> calls, outcome |-> outcome]

\* engine.play(board, ...) then client.board.make_move(game_id, result.move.uci()):
\* neither is in a try.  engine_play is ok when it returned a move; it is not
\* when engine.play raised or returned no move (result.move.uci() then raises).
MoveSubmission(plies) ==
    { [calls |-> <<Act("engine_play", FALSE, plies)>>, raised |-> TRUE],
      [calls |-> <<Act("engine_play", TRUE, plies), Act("make_move", FALSE, 0)>>,
       raised |-> TRUE],
      [calls |-> <<Act("engine_play", TRUE, plies), Act("make_move", TRUE, 0)>>,
       raised |-> FALSE] }

OurId == "us"
WhiteIds == {"us", "them"}

ColorOf_Swapped(white_id) == IF white_id = OurId THEN "black" ELSE "white"

\* 'white' if game_event['white']['id'] == our_id else 'black'
ColorOf(white_id) == IF white_id = OurId THEN "white" ELSE "black"

\* the gameFull branch; ev.white = "missing" is an event without white.id
OnGameFull(ev, color, count) ==
    IF ev.white \notin WhiteIds
    THEN {Result(color, count, <<>>, "raise")}
    ELSE LET c == ColorOf(ev.white) IN
         IF c = "white"
         THEN { IF m.raised
                THEN Result(c, count, m.calls, "raise")
                ELSE Result(c, 1, m.calls, "continue") : m \in MoveSubmission(0) }
         ELSE {Result(c, count, <<>>, "continue")}

GameOver_AbsentIsStarted(status) == status \notin {"started", "absent"}

\* state.get('status') != 'started'
GameOver(status) == status # "started"

TurnGuard_NoTurnCheck(moves, color) ==
    /\ moves # <<>>
    /\ color # None

TurnGuard_NoColorCheck(moves, color) ==
    /\ moves # <<>>
    /\ IsOurTurn(moves, color)

\* moves and our_color and self.is_our_turn(moves, our_color)
TurnGuard(moves, color) ==
    /\ moves # <<>>
    /\ color # None
    /\ IsOurTurn(moves, color)

\* lines 125-132, after the board is built from n tokens
AfterReplay(color, n, S) ==
    UNION { LET cr == ConsiderResignation(r, pieces, ok, S)
                before == <<Act("sleep", TRUE, 0)>> \o cr.calls
            IN  IF cr.ret
                THEN {Result(color, n, before, "return")}
                ELSE { Result(color, n, before \o m.calls,
                              IF m.raised THEN "raise" ELSE "continue")
                       : m \in MoveSubmission(n) }
            : r \in RandomValues, pieces \in PieceCounts(n), ok \in BOOLEAN }

\* the gameState branch
OnGameState(ev, color, count, S) ==
    IF GameOver(ev.status)
    THEN {Result(color, count, <<>>, "return")}
    ELSE IF TurnGuard(ev.moves, color)
         THEN LET n == Len(Split(ev.moves)) IN
              \* board.push_uci(move) raises on a token that is no legal move
              (IF n > 0
               THEN {Result(color, n, <<Act("sleep", TRUE, 0)>>, "raise")}
               ELSE {})
              \cup AfterReplay(color, n, S)
         ELSE IF ev.moves # <<>>
              THEN {Result(color, Len(Split(ev.moves)), <<>>, "continue")}
              ELSE {Result(color, count, <<>>, "continue")}

OnChatLine_ReturnsOnAccept(ev, color, count, S) ==
    LET text == Lower(ev.text) IN
    IF HasDrawWord(text)
    THEN { LET d == ShouldAcceptDraw(count, r, ok, S)
           IN  Result(color, count, d.calls, IF d.ret THEN "return" ELSE "continue")
           : r \in RandomValues, ok \in BOOLEAN }
    ELSE IF HasTakebackWord(text)
         THEN { Result(color, count, ShouldAcceptTakeback(r, ok, S).calls, "continue")
                : r \in RandomValues, ok \in BOOLEAN }
         ELSE {Result(color, count, <<>>, "continue")}

\* the chatLine branch
OnChatLine(ev, color, count, S) ==
    LET text == Lower(ev.text) IN
    IF HasDrawWord(text)
    THEN { Result(color, count, ShouldAcceptDraw(count, r, ok, S).calls, "continue")
           : r \in RandomValues, ok \in BOOLEAN }
    ELSE IF HasTakebackWord(text)
         THEN { Result(color, count, ShouldAcceptTakeback(r, ok, S).calls, "continue")
                : r \in RandomValues, ok \in BOOLEAN }
         ELSE {Result(color, count, <<>>, "continue")}

\* the takebackOffered branch
OnTakebackOffered(ev, color, count, S) ==
    { Result(color, count, ShouldAcceptTakeback(r, ok, S).calls, "continue")
      : r \in RandomValues, ok \in BOOLEAN }

(***************************************************************************)
(* The events of a game stream.                                            *)
(***************************************************************************)
Event(type, white, status, moves, text) ==
    [type |-> type, white |-> white, status |-> status, moves |-> moves, text |-> text]

NoEvent == Event("none", "-", "-", <<>>, <<>>)
StreamError == Event("error", "-", "-", <<>>, <<>>)
EndOfStream == Event("end", "-", "-", <<>>, <<>>)

\* "absent": the event has no status key, state.get('status') is None
Statuses == {"started", "resigned", "absent"}

MoveStrings == StringsUpTo(MoveChars, MaxMovesLen)

Fragments ==
    { <<"D", "R", "A", "W">>, <<"d", "r">>, <<"a", "w", "?">>,
      <<"B", "a", "c", "k">>,
      <<"CY_N", "cy_i", "cy_ch", "cy_soft", "cy_ya">>,
      <<"cy_o", "cy_t", "cy_m", "cy_e", "cy_n", "cy_a">>, <<"h", "i">> }

\* the chat texts of the model: one fragment, or two, one after the other
Texts == {<<>>} \cup Fragments \cup {f \o g : f \in Fragments, g \in Fragments}

GameFullEvents == {Event("gameFull", w, "-", <<>>, <<>>) : w \in WhiteIds \cup {"missing"}}
GameStateEvents == {Event("gameState", "-", st, m, <<>>) : st \in Statuses, m \in MoveStrings}
ChatLineEvents == {Event("chatLine", "-", "-", <<>>, t) : t \in Texts}
TakebackEvent == Event("takebackOffered", "-", "-", <<>>, <<>>)
OtherEvent == Event("opponentGone", "-", "-", <<>>, <<>>)

SettingsChoices ==
    [ draw_accept_chance : {0, DefaultDrawAcceptChance, 100},
      takeback_accept_chance : {DefaultTakebackAcceptChance},
      resign_chance : {DefaultResignChance},
      min_moves_for_draw : {2, DefaultMinMovesForDraw} ]

NoQuery == [moves |-> <<>>, color |-> "white", asked |-> FALSE, answer |-> FALSE]

(***************************************************************************)
(* The state after __init__.  self.settings is read by every decision and  *)
(* written by none: the model starts from the values of __init__ or from   *)
(* another configuration, so that a decision is checked against the        *)
(* configuration and not against one value of it.                          *)
(***************************************************************************)
Init ==
    /\ pc = "listening"
    /\ incoming = "none"
    /\ settings \in SettingsChoices
    /\ our_color = None
    /\ move_count = 0
    /\ last = NoEvent
    /\ acts = <<>>
    /\ ended = "no"
    /\ openings = 0
    /\ tq = NoQuery

(***************************************************************************)
(* run                                                                     *)
(***************************************************************************)
\* a challenge event: challenges.accept, in a try of its own
RunChallenge ==
    /\ pc = "listening"
    /\ \E ok \in BOOLEAN :
         incoming' = IF ok THEN "challenge_accepted" ELSE "challenge_failed"
    /\ UNCHANGED <<pc, settings, our_color, move_count, last, acts, ended, openings, tq>>

RunGameStart_Reentrant ==
    /\ pc \in {"listening", "playing"}
    /\ pc' = "playing"
    /\ incoming' = "gameStart"
    /\ our_color' = None
    /\ move_count' = 0
    /\ last' = NoEvent
    /\ acts' = <<>>
    /\ ended' = "no"
    /\ openings' = 0
    /\ UNCHANGED <<settings, tq>>

\* a gameStart event: play_game is entered, its locals are set (lines 89-91)
RunGameStart ==
    /\ pc = "listening"
    /\ pc' = "playing"
    /\ incoming' = "gameStart"
    /\ our_color' = None
    /\ move_count' = 0
    /\ last' = NoEvent
    /\ acts' = <<>>
    /\ ended' = "no"
    /\ openings' = 0
    /\ UNCHANGED <<settings, tq>>

\* an incoming event of any other type
RunOtherEvent ==
    /\ pc = "listening"
    /\ incoming' = "ignored"
    /\ UNCHANGED <<pc, settings, our_color, move_count, last, acts, ended, openings, tq>>

\* stream_incoming_events() is exhausted: run returns
RunStreamEnds ==
    /\ pc = "listening"
    /\ pc' = "stopped"
    /\ UNCHANGED <<incoming, settings, our_color, move_count, last, acts, ended, openings, tq>>

\* stream_incoming_events() raises, or an incoming event has no 'type': nothing
\* in run catches it
RunStreamRaises ==
    /\ pc = "listening"
    /\ pc' = "crashed"
    /\ UNCHANGED <<incoming, settings, our_color, move_count, last, acts, ended, openings, tq>>

(***************************************************************************)
(* play_game                                                               *)
(***************************************************************************)
SessionBoundary_Propagates(outcome) ==
    CASE outcome = "continue" -> "playing"
      [] outcome = "return" -> "listening"
      [] outcome = "exhausted" -> "listening"
      [] outcome = "raise" -> "crashed"

\* where run is after a handler: inside play_game's loop, or back in its own
\* loop when play_game returned or its `except Exception` caught the exception
SessionBoundary(outcome) ==
    CASE outcome = "continue" -> "playing"
      [] outcome = "return" -> "listening"
      [] outcome = "exhausted" -> "listening"
      [] outcome = "raise" -> "listening"

HowEnded(outcome) ==
    CASE outcome = "continue" -> "no"
      [] outcome = "return" -> "return"
      [] outcome = "exhausted" -> "exhausted"
      [] outcome = "raise" -> "exception"

\* the make_move calls of a handler that returned and submitted a move the
\* engine computed on the initial position
OpeningMoves(calls) ==
    { i \in Calls(calls, "make_move") :
        /\ calls[i].ok
        /\ i > 1
        /\ calls[i - 1] = Act("engine_play", TRUE, 0) }

Handle(ev, res) ==
    /\ last' = ev
    /\ acts' = res.calls
    /\ our_color' = res.color
    /\ move_count' = res.count
    /\ pc' = SessionBoundary(res.outcome)
    /\ ended' = HowEnded(res.outcome)
    /\ openings' = IF openings + Cardinality(OpeningMoves(res.calls)) > MaxOpenings
                   THEN MaxOpenings
                   ELSE openings + Cardinality(OpeningMoves(res.calls))
    /\ UNCHANGED <<incoming, settings, tq>>

GameFull ==
    /\ pc = "playing"
    /\ \E ev \in GameFullEvents :
         \E res \in OnGameFull(ev, our_color, move_count) : Handle(ev, res)

GameState ==
    /\ pc = "playing"
    /\ \E ev \in GameStateEvents :
         \E res \in OnGameState(ev, our_color, move_count, settings) : Handle(ev, res)

ChatLine ==
    /\ pc = "playing"
    /\ \E ev \in ChatLineEvents :
         \E res \in OnChatLine(ev, our_color, move_count, settings) : Handle(ev, res)

TakebackOffered ==
    /\ pc = "playing"
    /\ \E res \in OnTakebackOffered(TakebackEvent, our_color, move_count, settings) :
         Handle(TakebackEvent, res)

\* an event of a type no branch names
UnknownEvent ==
    /\ pc = "playing"
    /\ Handle(OtherEvent, Result(our_color, move_count, <<>>, "continue"))

\* stream_game_state raises (a network error), or yields an event without a
\* 'type': the exception reaches play_game's `except Exception`
StreamRaises ==
    /\ pc = "playing"
    /\ Handle(StreamError, Result(our_color, move_count, <<>>, "raise"))

\* stream_game_state is exhausted: the for loop ends and play_game returns
StreamEnds ==
    /\ pc = "playing"
    /\ Handle(EndOfStream, Result(our_color, move_count, <<>>, "exhausted"))

Next ==
    \/ RunChallenge
    \/ RunGameStart
    \/ RunOtherEvent
    \/ RunStreamEnds
    \/ RunStreamRaises
    \/ GameFull
    \/ GameState
    \/ ChatLine
    \/ TakebackOffered
    \/ UnknownEvent
    \/ StreamRaises
    \/ StreamEnds

Spec == Init /\ [][Next]_vars

(***************************************************************************)
(* is_our_turn on its own: a query is drawn, then answered.                *)
(***************************************************************************)
TurnInit ==
    /\ pc = "listening"
    /\ incoming = "none"
    /\ settings = [ draw_accept_chance |-> DefaultDrawAcceptChance,
                    takeback_accept_chance |-> DefaultTakebackAcceptChance,
                    resign_chance |-> DefaultResignChance,
                    min_moves_for_draw |-> DefaultMinMovesForDraw ]
    /\ our_color = None
    /\ move_count = 0
    /\ last = NoEvent
    /\ acts = <<>>
    /\ ended = "no"
    /\ openings = 0
    /\ tq \in [ moves : StringsUpTo(MoveChars, MaxTurnLen), color : Colors,
                asked : {FALSE}, answer : {FALSE} ]

TurnAsk ==
    /\ ~tq.asked
    /\ tq' = [tq EXCEPT !.asked = TRUE, !.answer = IsOurTurn(tq.moves, tq.color)]
    /\ UNCHANGED <<pc, incoming, settings, our_color, move_count, last, acts, ended, openings>>

TurnNext == TurnAsk

TurnSpec == TurnInit /\ [][TurnNext]_vars

(***************************************************************************)
(* Properties.                                                             *)
(***************************************************************************)
\* the number of move tokens of a moves string
TokenCount(moves) == Len(Split(moves))

\* turn parity as the specification states it: an even token count is the
\* first mover's turn, an odd one the second mover's
OnTurn(moves, color) == (color = "white") = (TokenCount(moves) % 2 = 0)

\* a session is Active: play_game is in its loop and the color is assigned
Active == pc = "playing" /\ our_color \in Colors

AllOk(as) == \A i \in DOMAIN as : as[i].ok
FailedServiceCall(as) == \E i \in DOMAIN as : as[i].call \in ServiceCalls /\ ~as[i].ok
NoOutbound(as) ==
    \A i \in DOMAIN as : as[i].call \notin ServiceCalls \cup {"engine_play", "sleep"}

\* C1: is_our_turn is a parity check on the number of tokens: for white it is
\* true iff the token count is even (the empty string included), for black iff
\* it is odd, and exactly one of the two colors is on turn.
Thm_C1 ==
    tq.asked =>
        /\ tq.color = "white" => (tq.answer <=> TokenCount(tq.moves) % 2 = 0)
        /\ tq.color = "black" => (tq.answer <=> TokenCount(tq.moves) % 2 = 1)
        /\ IsOurTurn(tq.moves, "white") # IsOurTurn(tq.moves, "black")

Wit_C1 ==
    /\ tq.asked
    /\ TokenCount(tq.moves) = 3
    /\ tq.color = "black"
    /\ tq.answer

Terminal(ev) == ev.type = "gameState" /\ ev.status # "started"

\* C2: a gameState event whose status is not 'started' ends the session: no
\* call is made for it, whatever its moves and whoever is on turn, play_game
\* returns, and nothing further is taken from the stream of that session.
Thm_C2 ==
    /\ [](Terminal(last) => acts = <<>> /\ pc # "playing" /\ ended = "return")
    /\ [][Terminal(last) => (last' = last /\ acts' = acts) \/ last' = NoEvent]_vars

Wit_C2 ==
    /\ last.type = "gameState"
    /\ last.status = "resigned"
    /\ TokenCount(last.moves) = 2
    /\ our_color = "white"
    /\ ended = "return"

\* the move-submission procedure run once on a board of n replayed tokens:
\* one engine call and, when it returns a move, one make_move call after it
SubmissionAttempt(as, n) ==
    /\ Len(as) >= 1
    /\ as[1].call = "engine_play"
    /\ as[1].arg = n
    /\ IF as[1].ok THEN Len(as) = 2 /\ as[2].call = "make_move" ELSE Len(as) = 1

\* C3: when the first event of a session is a gameFull event whose white id
\* is our id, our_color becomes white and one move submission is attempted on
\* the initial position within that event's handling (the session stays in
\* its loop when no call raised); when the ids differ, our_color becomes
\* black and nothing is called for that event.
Thm_C3 ==
    [][ (pc = "playing" /\ last = NoEvent /\ last'.type = "gameFull") =>
          /\ last'.white = OurId =>
               /\ our_color' = "white"
               /\ SubmissionAttempt(acts', 0)
               /\ AllOk(acts') => pc' = "playing" /\ move_count' = 1
          /\ last'.white \in WhiteIds \ {OurId} =>
               /\ our_color' = "black"
               /\ acts' = <<>>
               /\ pc' = "playing" ]_vars

Wit_C3 ==
    /\ last.type = "gameFull"
    /\ last.white = OurId
    /\ our_color = "white"
    /\ Len(acts) = 2
    /\ acts[2] = Act("make_move", TRUE, 0)
    /\ pc = "playing"

\* the handler resigned and play_game returned, with no engine call and no move
ResignedAndTerminated(as, how) ==
    /\ Count(as, "resign") = 1
    /\ \A i \in Calls(as, "resign") : as[i].ok
    /\ Count(as, "engine_play") = 0
    /\ Count(as, "make_move") = 0
    /\ how = "return"

\* the handler called the engine once on the board of n tokens and submitted
\* exactly one move (the move the engine returned)
EngineAndOneMove(as, n) ==
    /\ Count(as, "engine_play") = 1
    /\ \A i \in Calls(as, "engine_play") :
         /\ as[i].arg = n
         /\ IF as[i].ok
            THEN Count(as, "make_move") = 1 /\ i + 1 \in Calls(as, "make_move")
            ELSE Count(as, "make_move") = 0
    /\ \A i \in Calls(as, "resign") : ~as[i].ok

\* a gameState event with status 'started' is handled by an Active session
\* whose color is on turn
OurTurnStep ==
    /\ Active
    /\ last'.type = "gameState"
    /\ last'.status = "started"
    /\ OnTurn(last'.moves, our_color)

\* C4 as stated: for every token sequence, the empty one included, an Active
\* session on turn either resigns and terminates or calls the engine and
\* submits exactly one move.
Orig_C4 ==
    [][ OurTurnStep =>
          \/ ResignedAndTerminated(acts', ended')
          \/ EngineAndOneMove(acts', TokenCount(last'.moves)) ]_vars

\* C4 amended: with a non-empty moves string the session sleeps, then either
\* fails to replay the tokens (the session ends, nothing is submitted), or
\* resigns and terminates, or calls the engine once on the replayed board and
\* submits exactly one move when the engine returns one; with an empty moves
\* string it calls nothing and stays in its loop.
Thm_C4 ==
    [][ OurTurnStep =>
          IF last'.moves = <<>>
          THEN acts' = <<>> /\ pc' = "playing"
          ELSE /\ Len(acts') >= 1
               /\ acts'[1].call = "sleep"
               /\ \/ acts' = <<Act("sleep", TRUE, 0)>> /\ ended' = "exception"
                  \/ ResignedAndTerminated(acts', ended')
                  \/ /\ EngineAndOneMove(acts', TokenCount(last'.moves))
                     /\ pc' = "playing" <=> AllOk(SubSeq(acts', Len(acts'), Len(acts'))) ]_vars

Wit_C4 ==
    /\ last.type = "gameState"
    /\ last.status = "started"
    /\ our_color = "black"
    /\ TokenCount(last.moves) = 1
    /\ \E i \in Calls(acts, "resign") : ~acts[i].ok
    /\ acts[Len(acts)] = Act("make_move", TRUE, 0)
    /\ pc = "playing"

DrawChat(ev) == ev.type = "chatLine" /\ HasDrawWord(Lower(ev.text))

\* C5: accept_draw is never called while move_count is below
\* min_moves_for_draw, whatever draw_accept_chance and the random value are: a
\* draw proposal handled then makes no call at all.
Thm_C5 ==
    /\ Count(acts, "accept_draw") > 0 => move_count >= settings.min_moves_for_draw
    /\ DrawChat(last) /\ move_count < settings.min_moves_for_draw => acts = <<>>

Wit_C5 ==
    /\ DrawChat(last)
    /\ settings.draw_accept_chance = 100
    /\ settings.min_moves_for_draw = 2
    /\ move_count = 1
    /\ acts = <<>>

\* C6: a chat message with a draw keyword handled when move_count is at
\* least min_moves_for_draw calls accept_draw exactly once when
\* draw_accept_chance is 1.0 and never when it is 0.0.
Thm_C6 ==
    DrawChat(last) /\ move_count >= settings.min_moves_for_draw =>
        /\ settings.draw_accept_chance = 100 => Count(acts, "accept_draw") = 1
        /\ settings.draw_accept_chance = 0 => Count(acts, "accept_draw") = 0

Wit_C6 ==
    /\ last.type = "chatLine"
    /\ last.text = <<"d", "r", "a", "w", "?">>
    /\ settings.draw_accept_chance = 100
    /\ move_count = settings.min_moves_for_draw
    /\ Count(acts, "accept_draw") = 1

\* C7 as stated: a game-service call that fails while an event is handled
\* never ends the session: play_game stays in its loop.
Orig_C7 ==
    [][ pc = "playing" /\ FailedServiceCall(acts') => pc' = "playing" ]_vars

\* C8: an exception raised while a session processes its stream ends that
\* session only: play_game returns and run is back in its own loop, where it
\* takes the next incoming event.
Thm_C8 ==
    [][ pc = "playing" /\ ended' = "exception" => pc' = "listening" ]_vars

Wit_C8 ==
    /\ ended = "exception"
    /\ last.type = "gameState"
    /\ acts[Len(acts)] = Act("engine_play", FALSE, 1)
    /\ pc = "listening"
    /\ incoming = "challenge_accepted"

\* C9 as stated: once our_color is set, no event of the session changes it.
Orig_C9 ==
    [][ Active => our_color' = our_color ]_vars

\* C10 as stated: every chat message with a takeback keyword gets the
\* takeback decision (a coin flip against takeback_accept_chance, and
\* accept_takeback when it succeeds), also when it holds a draw keyword too.
Orig_C10 ==
    last.type = "chatLine" /\ HasTakebackWord(Lower(last.text)) =>
        \E i \in Calls(acts, "flip_takeback") :
            CoinFlip(acts[i].arg, settings.takeback_accept_chance)
                => Count(acts, "accept_takeback") = 1

\* C11: a gameState event with status 'started' handled by an Active session
\* whose color is not on turn makes no call at all (no delay, no engine call,
\* no move, no resignation); the session stays Active with the same color.
Thm_C11 ==
    [][ ( /\ Active
          /\ last'.type = "gameState"
          /\ last'.status = "started"
          /\ ~OnTurn(last'.moves, our_color) ) =>
          /\ acts' = <<>>
          /\ pc' = "playing"
          /\ ended' = "no"
          /\ our_color' = our_color ]_vars

Wit_C11 ==
    /\ last.type = "gameState"
    /\ last.status = "started"
    /\ TokenCount(last.moves) = 2
    /\ our_color = "black"
    /\ move_count = 2
    /\ acts = <<>>
    /\ pc = "playing"

\* C12 as stated: after every gameState event with status 'started' has been
\* handled, move_count is the number of tokens of that event's moves.
Orig_C12 ==
    last.type = "gameState" /\ last.status = "started"
        => move_count = TokenCount(last.moves)

Before(as, a, b) ==
    \E i \in Calls(as, a) : \E j \in Calls(as, b) : i < j

\* C13: resign is called only for a gameState event with status 'started' on
\* our turn, after the pre-move delay, after a coin flip against
\* resign_chance that succeeded and with fewer than 10 pieces on the
\* replayed board; when the call returns, play_game returns without an engine
\* call or a move for that event, and nothing more is taken from the stream.
Thm_C13 ==
    /\ [](Count(acts, "resign") > 0 =>
            /\ last.type = "gameState"
            /\ last.status = "started"
            /\ our_color \in Colors
            /\ OnTurn(last.moves, our_color)
            /\ acts[1].call = "sleep"
            /\ Before(acts, "sleep", "resign")
            /\ \E i \in Calls(acts, "flip_resign") :
                 acts[i].arg < settings.resign_chance
            /\ \E i \in Calls(acts, "piece_map") : acts[i].arg < 10
            /\ (\E i \in Calls(acts, "resign") : acts[i].ok) =>
                 /\ Count(acts, "engine_play") = 0
                 /\ Count(acts, "make_move") = 0
                 /\ ended = "return"
                 /\ pc # "playing")
    /\ [][ (\E i \in Calls(acts, "resign") : acts[i].ok)
             => (last' = last /\ acts' = acts) \/ last' = NoEvent ]_vars

Wit_C13 ==
    /\ last.type = "gameState"
    /\ our_color = "white"
    /\ TokenCount(last.moves) = 2
    /\ acts = <<Act("sleep", TRUE, 0), Act("flip_resign", TRUE, 0),
                Act("piece_map", TRUE, 9), Act("resign", TRUE, 0)>>
    /\ ended = "return"

\* C14: a failed accept_draw, accept_takeback or resign call does not end the
\* session, and after a failed resign call the engine is still called, once,
\* for that same event, and the move it returns is submitted; the session
\* stays in its loop unless the move submission itself raises.
Thm_C14 ==
    [][ pc = "playing" =>
          /\ (\E i \in DOMAIN acts' :
                acts'[i].call \in {"accept_draw", "accept_takeback"} /\ ~acts'[i].ok)
               => pc' = "playing" /\ ended' = "no"
          /\ \A i \in Calls(acts', "resign") : ~acts'[i].ok =>
               /\ i < Len(acts')
               /\ acts'[i + 1].call = "engine_play"
               /\ EngineAndOneMove(acts', TokenCount(last'.moves))
               /\ pc' = "playing" <=> acts'[Len(acts')] = Act("make_move", TRUE, 0) ]_vars

Wit_C14 ==
    /\ last.type = "gameState"
    /\ our_color = "white"
    /\ TokenCount(last.moves) = 2
    /\ acts = <<Act("sleep", TRUE, 0), Act("flip_resign", TRUE, 0),
                Act("piece_map", TRUE, 9), Act("resign", FALSE, 0),
                Act("engine_play", TRUE, 2), Act("make_move", TRUE, 0)>>
    /\ pc = "playing"

\* C15: run handles no incoming event while a play_game call is in progress:
\* inside a session the record of incoming events does not change and the
\* session's locals are not set anew; an incoming event is handled, and a
\* session begun, only when run is in its own loop, and events of a game
\* stream are handled only inside the one session.
Thm_C15 ==
    /\ [][ pc = "playing" => incoming' = incoming /\ last' # NoEvent ]_vars
    /\ [][ incoming' # incoming => pc = "listening" ]_vars
    /\ [][ last' # last /\ last' # NoEvent => pc = "playing" ]_vars

Wit_C15 ==
    /\ pc = "playing"
    /\ incoming = "gameStart"
    /\ last.type = "chatLine"
    /\ Count(acts, "accept_draw") = 1

\* the takeback decision: one coin flip against takeback_accept_chance, and
\* accept_takeback called exactly when it succeeded
TakebackDecision(as) ==
    /\ Len(as) >= 1
    /\ as[1].call = "flip_takeback"
    /\ IF as[1].arg < settings.takeback_accept_chance
       THEN Len(as) = 2 /\ as[2].call = "accept_takeback"
       ELSE Len(as) = 1

\* C16: a takebackOffered event is handled like a chat message with only a
\* takeback keyword: one takeback decision, accept_takeback called iff the
\* coin flip succeeded, whatever the move count, the color and the turn.
Thm_C16 ==
    /\ last.type = "takebackOffered" => TakebackDecision(acts)
    /\ ( /\ last.type = "chatLine"
         /\ HasTakebackWord(Lower(last.text))
         /\ ~HasDrawWord(Lower(last.text)) ) => TakebackDecision(acts)

Wit_C16 ==
    /\ last.type = "takebackOffered"
    /\ our_color = None
    /\ move_count = 0
    /\ acts = <<Act("flip_takeback", TRUE, 0), Act("accept_takeback", TRUE, 0)>>

\* C17: an event of an unrecognized type makes no call and changes nothing of
\* the session; a chatLine or takebackOffered event never sleeps, calls the
\* engine, submits a move or resigns, never ends the session, and leaves
\* our_color and move_count as they were.
Thm_C17 ==
    [][ pc = "playing" =>
          /\ last'.type = OtherEvent.type =>
               /\ acts' = <<>>
               /\ pc' = "playing"
               /\ our_color' = our_color
               /\ move_count' = move_count
          /\ last'.type \in {"chatLine", "takebackOffered"} =>
               /\ \A i \in DOMAIN acts' :
                    acts'[i].call \notin {"sleep", "engine_play", "make_move", "resign"}
               /\ pc' = "playing"
               /\ ended' = "no"
               /\ our_color' = our_color
               /\ move_count' = move_count ]_vars

Wit_C17 ==
    /\ last.type = "chatLine"
    /\ Count(acts, "accept_draw") = 1
    /\ our_color = "black"
    /\ move_count = 2
    /\ pc = "playing"

\* C18 as stated: a session submits at most one move computed on the initial
\* position.
Orig_C18 == openings <= 1

\* C19: while our_color is unset, a gameState event makes no call (no move, no
\* resignation, no engine call) and our_color stays unset; no state with
\* our_color unset shows a move, a resignation or an engine call.
Thm_C19 ==
    /\ [](our_color = None =>
            /\ Count(acts, "make_move") = 0
            /\ Count(acts, "resign") = 0
            /\ Count(acts, "engine_play") = 0)
    /\ [][ pc = "playing" /\ our_color = None /\ last'.type = "gameState"
             => acts' = <<>> /\ our_color' = None ]_vars

Wit_C19 ==
    /\ our_color = None
    /\ last.type = "gameState"
    /\ last.status = "started"
    /\ TokenCount(last.moves) = 1
    /\ move_count = 1
    /\ acts = <<>>
    /\ pc = "playing"

====
